---- MODULE Spec2Model ----
(***************************************************************************)
(* A model of the slot allocator of src/src/arena.rs (Arena<T>, Cell<T>,   *)
(* Handle) and of the tree layer that lib.rs documents on top of it.       *)
(*                                                                         *)
(* Indices are 0-based as in the code; the sequence `data` is 1-based, so  *)
(* the cell of index i is data[i + 1].                                     *)
(***************************************************************************)
EXTENDS Integers, Sequences, FiniteSets, TLC

VARIABLES
    data,             \* Arena::data: Vec<Cell<T>>
    head,             \* Arena::head: Option<usize>
    len,              \* Arena::len: usize
    overflow_checks,  \* whether the build traps integer overflow (debug) or wraps (release)
    status,           \* "running", or how the process ended inside a call
    log,              \* the insert and remove calls made so far, oldest first
    last              \* the most recent call and what it returned

vars == <<data, head, len, overflow_checks, status, log, last>>

-----------------------------------------------------------------------------
(* Bounds of the model. *)

\* The number of cells the heap can hold: a Vec that would exceed it fails to
\* allocate and the process aborts.
MemCells == 5

\* The number of insert and remove calls that are explored.
MaxCalls == 4

\* The largest capacity of the arenas SpecWF starts from: MaxCalls calls can
\* empty such an arena and fill it again.
MaxInitCap == MaxCalls \div 2

\* The width of usize. The code's targets have 16, 32 or 64 bits; the
\* narrowest keeps the numbers inside TLC's integers.
UsizeBits == 16

Values == {"a", "b"}

\* Handle(usize) is public to its module only through insert's result, but the
\* claims speak of stale and out-of-range handles: callers pass any of these.
Handles == 0 .. MemCells

-----------------------------------------------------------------------------
(* Option<T>: None is the empty tuple, Some(x) the one-element tuple. *)

None == <<>>
Some(x) == <<x>>
IsSome(o) == o # <<>>
Unwrap(o) == o[1]

(* enum Cell<T> { Just(T), Nothing(Option<usize>) } *)
Just(v) == [tag |-> "Just", val |-> v]
Nothing(next) == [tag |-> "Nothing", next |-> next]

\* Vec::get: the cell of index i, or None when i is out of bounds.
VecGet(d, i) == IF i < Len(d) THEN Some(d[i + 1]) ELSE None

\* An arena value, as the methods' &self / &mut self.
ArenaOf(d, h, l) == [data |-> d, head |-> h, len |-> l]

\* pub fn len / is_empty / capacity
ArenaLen(a) == a.len
IsEmpty(a) == a.len = 0
Capacity(a) == Len(a.data)

\* pub fn new() -> Self
New == ArenaOf(<<>>, None, 0)

-----------------------------------------------------------------------------
(* fn find_last_available(&self) -> Option<usize>                           *)
(* aux walks the free list to its last cell; it panics when the walk meets *)
(* an occupied cell or leaves the store. A walk longer than the store has  *)
(* cells is in a cycle: the recursion never ends and overflows the stack.  *)

RECURSIVE aux(_, _, _)
aux(d, indx, fuel) ==
    LET c == VecGet(d, indx) IN
    IF fuel = 0 THEN [out |-> "abort: stack overflow", ret |-> None]
    ELSE IF c = None \/ Unwrap(c).tag = "Just"
         THEN [out |-> "panic: corrpt arena", ret |-> None]
    ELSE IF IsSome(Unwrap(c).next)
         THEN aux(d, Unwrap(Unwrap(c).next), fuel - 1)
    ELSE [out |-> "ok", ret |-> Some(indx)]

find_last_available(a) ==
    IF a.head = None THEN [out |-> "ok", ret |-> None]
    ELSE aux(a.data, Unwrap(a.head), Len(a.data) + 1)

-----------------------------------------------------------------------------
(* fn allocate(&mut self, additional: usize)                                *)

\* `additional - 1` on usize: with overflow checks the subtraction of 1 from
\* 0 panics, without them it wraps around.
SubOne(additional, checks) ==
    IF additional = 0 /\ checks
    THEN [out |-> "panic: attempt to subtract with overflow", n |-> 0]
    ELSE [out |-> "ok", n |-> (additional - 1) % (2 ^ UsizeBits)]

\* Chain with every link one too low: each new cell links to itself.
ChainOffByOne(first, n) == [k \in 1 .. n |-> Nothing(Some(first + k - 1))]

\* The cells `for i in (first + 1..).take(n) { push(Nothing(Some(i))) }` pushes.
Chain(first, n) == [k \in 1 .. n |-> Nothing(Some(first + k))]

\* allocate that builds the grown store afresh: every cell, old and new, is
\* a free cell of one chain from index 0.
allocateLosesContent(a, additional, checks) ==
    LET n == Len(a.data) + additional IN
    IF n > MemCells \/ n = 0 THEN [a |-> a, out |-> "abort: allocation failed"]
    ELSE [a |-> [a EXCEPT !.data = Chain(0, n - 1) \o <<Nothing(None)>>, !.head = Some(0)],
          out |-> "ok"]

allocate(a, additional, checks) ==
    LET first_new_cell_indx == Len(a.data)
        fla == find_last_available(a)
        linked == IF IsSome(fla.ret)
                  THEN [a EXCEPT !.data[Unwrap(fla.ret) + 1] =
                                     Nothing(Some(first_new_cell_indx))]
                  ELSE [a EXCEPT !.head = Some(first_new_cell_indx)]
        sub == SubOne(additional, checks)
        room == MemCells - first_new_cell_indx
    IN
    \* reserve_exact(additional)
    IF additional > room THEN [a |-> a, out |-> "abort: allocation failed"]
    ELSE IF fla.out # "ok" THEN [a |-> a, out |-> fla.out]
    ELSE IF sub.out # "ok" THEN [a |-> linked, out |-> sub.out]
    \* the loop's pushes, then the last push: the first one that finds the
    \* heap full aborts
    ELSE IF sub.n + 1 > room
         THEN [a |-> [linked EXCEPT !.data = a.data \o Chain(first_new_cell_indx, room)],
               out |-> "abort: allocation failed"]
    ELSE [a |-> [linked EXCEPT !.data = a.data \o Chain(first_new_cell_indx, sub.n)
                                               \o <<Nothing(None)>>],
          out |-> "ok"]

-----------------------------------------------------------------------------
(* pub fn insert(&mut self, data: T) -> Handle                              *)

\* Occupy that forgets the rest of the free list: head becomes None.
OccupyDropsRest(a, indx, v) ==
    LET c == VecGet(a.data, indx) IN
    IF c = None \/ Unwrap(c).tag = "Just"
    THEN [a |-> a, out |-> "panic: corrupt arena", h |-> None]
    ELSE [a |-> [a EXCEPT !.head = None, !.data[indx + 1] = Just(v)],
          out |-> "ok", h |-> Some(indx)]

\* The branch Some(indx): pop the head of the free list and occupy the cell.
Occupy(a, indx, v) ==
    LET c == VecGet(a.data, indx) IN
    IF c = None \/ Unwrap(c).tag = "Just"
    THEN [a |-> a, out |-> "panic: corrupt arena", h |-> None]
    ELSE [a |-> [a EXCEPT !.head = Unwrap(c).next, !.data[indx + 1] = Just(v)],
          out |-> "ok", h |-> Some(indx)]

\* How much insert asks allocate to add.
Additional(a) == a.len

RECURSIVE insert(_, _, _)
insert(a, v, checks) ==
    IF a.head = None
    THEN LET r == allocate(a, Additional(a), checks) IN
         IF r.out # "ok" THEN [a |-> r.a, out |-> r.out, h |-> None]
         ELSE insert(r.a, v, checks)
    ELSE Occupy(a, Unwrap(a.head), v)

-----------------------------------------------------------------------------
(* pub fn remove(&mut self, handle: Handle) -> Option<T>                    *)

\* Released with an empty link: the rest of the free list is lost.
ReleasedDropsLink(a, h) == Nothing(None)

\* Released when the swap exchanges the two local bindings and not the
\* slot's content: the slot keeps its value.
ReleasedKeepsContent(a, h) == a.data[h + 1]

\* The cell that remove leaves in the slot: x = Cell::Nothing(self.head),
\* swapped with the slot's content.
Released(a, h) == Nothing(a.head)

\* remove that releases the slot without looking at what it holds.
removeUnchecked(a, h) ==
    LET c == VecGet(a.data, h) IN
    IF c = None
    THEN [a |-> a, out |-> "ok", ret |-> None]
    ELSE [a |-> [a EXCEPT !.data[h + 1] = Released(a, h), !.head = Some(h)],
          out |-> "ok",
          ret |-> IF Unwrap(c).tag = "Just" THEN Some(Unwrap(c).val) ELSE None]

\* remove that releases an occupied slot and hands back nothing.
removeDropsValue(a, h) ==
    LET c == VecGet(a.data, h) IN
    IF c = None \/ Unwrap(c).tag = "Nothing"
    THEN [a |-> a, out |-> "ok", ret |-> None]
    ELSE [a |-> [a EXCEPT !.data[h + 1] = Released(a, h), !.head = Some(h)],
          out |-> "ok", ret |-> None]

remove(a, h) ==
    LET c == VecGet(a.data, h) IN
    IF c = None \/ Unwrap(c).tag = "Nothing"
    THEN [a |-> a, out |-> "ok", ret |-> None]
    ELSE LET x == Unwrap(c)
             b == [a EXCEPT !.data[h + 1] = Released(a, h), !.head = Some(h)]
         IN IF x.tag = "Just"
            THEN [a |-> b, out |-> "ok", ret |-> Some(x.val)]
            ELSE [a |-> b, out |-> "panic: something is wrong with the code", ret |-> None]

(* pub fn get(&self, handle: Handle) -> Option<&T>                          *)
get(a, h) ==
    LET c == VecGet(a.data, h) IN
    IF c = None \/ Unwrap(c).tag = "Nothing" THEN None ELSE Some(Unwrap(c).val)

(* pub fn get_mut(&mut self, handle: Handle) -> Option<&mut T>              *)
get_mut(a, h) ==
    LET c == VecGet(a.data, h) IN
    IF c = None \/ Unwrap(c).tag = "Nothing" THEN None ELSE Some(Unwrap(c).val)

-----------------------------------------------------------------------------
(* The program: a caller that owns one arena and calls its public methods. *)

Self == ArenaOf(data, head, len)

\* A call record: op; h the handle passed (remove, get, get_mut) or returned
\* (insert); v the value passed (insert) or returned (remove, get, get_mut);
\* done whether the call returned; cap the capacity after the call.
Call(op, h, v, done, cap) == [op |-> op, h |-> h, v |-> v, done |-> done, cap |-> cap]
NoCall == Call("none", None, None, TRUE, 0)

Insert(v) ==
    /\ status = "running"
    /\ Len(log) < MaxCalls
    /\ LET r == insert(Self, v, overflow_checks)
           c == Call("insert", r.h, Some(v), r.out = "ok", Len(r.a.data))
       IN /\ data' = r.a.data
          /\ head' = r.a.head
          /\ len' = r.a.len
          /\ status' = IF r.out = "ok" THEN "running" ELSE r.out
          /\ log' = Append(log, c)
          /\ last' = c
    /\ UNCHANGED overflow_checks

Remove(h) ==
    /\ status = "running"
    /\ Len(log) < MaxCalls
    /\ LET r == remove(Self, h)
           c == Call("remove", Some(h), r.ret, r.out = "ok", Len(r.a.data))
       IN /\ data' = r.a.data
          /\ head' = r.a.head
          /\ len' = r.a.len
          /\ status' = IF r.out = "ok" THEN "running" ELSE r.out
          /\ log' = Append(log, c)
          /\ last' = c
    /\ UNCHANGED overflow_checks

Get(h) ==
    /\ status = "running"
    /\ last' = Call("get", Some(h), get(Self, h), TRUE, Len(data))
    /\ UNCHANGED <<data, head, len, overflow_checks, status, log>>

GetMut(h) ==
    /\ status = "running"
    /\ last' = Call("get_mut", Some(h), get_mut(Self, h), TRUE, Len(data))
    /\ UNCHANGED <<data, head, len, overflow_checks, status, log>>

\* The state after construction: Arena::new(), in either build.
Init ==
    /\ data = New.data
    /\ head = New.head
    /\ len = New.len
    /\ overflow_checks \in BOOLEAN
    /\ status = "running"
    /\ log = <<>>
    /\ last = NoCall

Next ==
    \/ \E v \in Values : Insert(v)
    \/ \E h \in Handles : Remove(h)
    \/ \E h \in Handles : Get(h)
    \/ \E h \in Handles : GetMut(h)

Spec == Init /\ [][Next]_vars

-----------------------------------------------------------------------------
(* The representation invariant of Arena (spec section 3).                  *)

Occupied(d) == {i \in 0 .. Len(d) - 1 : d[i + 1].tag = "Just"}
Free(d) == {i \in 0 .. Len(d) - 1 : d[i + 1].tag = "Nothing"}

\* The indices met by following the links from `from`, in order; the walk
\* stops before an index that is out of bounds or occupied, and after `fuel`
\* cells.
RECURSIVE Walk(_, _, _)
Walk(d, from, fuel) ==
    IF from = None \/ fuel = 0 THEN <<>>
    ELSE LET i == Unwrap(from) IN
         IF i >= Len(d) \/ d[i + 1].tag = "Just" THEN <<>>
         ELSE <<i>> \o Walk(d, d[i + 1].next, fuel - 1)

Range(s) == {s[k] : k \in 1 .. Len(s)}

\* Following the links from head visits every free cell exactly once and
\* nothing else, and ends at an empty link.
FreeListWF(d, hd) ==
    LET w == Walk(d, hd, Len(d) + 1) IN
    /\ Range(w) = Free(d)
    /\ Len(w) = Cardinality(Free(d))
    /\ (hd = None) <=> (Free(d) = {})
    /\ \A i \in Free(d) : LET n == d[i + 1].next IN
                            IsSome(n) => Unwrap(n) \in Free(d)

WellFormed(a) ==
    /\ FreeListWF(a.data, a.head)
    /\ a.len = Cardinality(Occupied(a.data))

\* The cells an arena of capacity c can hold.
CellsOf(c) == {Just(v) : v \in Values}
                \cup {Nothing(None)} \cup {Nothing(Some(i)) : i \in 0 .. c - 1}

\* Every well-formed arena of capacity at most MaxInitCap.
WellFormedArenas ==
    {a \in UNION {[data : [1 .. c -> CellsOf(c)],
                   head : {None} \cup {Some(i) : i \in 0 .. c - 1},
                   len : 0 .. c] : c \in 0 .. MaxInitCap} : WellFormed(a)}

\* The methods as functions of the arena they are applied to: any well-formed
\* arena, Arena::new() among them. From Arena::new() itself the first insert
\* does not return (allocate(0)), so a run of Spec never holds a value.
InitWF ==
    /\ \E a \in WellFormedArenas : data = a.data /\ head = a.head /\ len = a.len
    /\ overflow_checks \in BOOLEAN
    /\ status = "running"
    /\ log = <<>>
    /\ last = NoCall

NextWF ==
    \/ \E v \in Values : Insert(v)
    \/ \E h \in 0 .. Len(data) : Remove(h)
    \/ \E h \in 0 .. Len(data) : Get(h)
    \/ \E h \in 0 .. Len(data) : GetMut(h)

SpecWF == InitWF /\ [][NextWF]_vars

-----------------------------------------------------------------------------
(* The tree layer that lib.rs documents (Arena::new_node, Token::append,    *)
(* Arena::remove, Arena::uproot, node_count). Its code (mod alloc, node,    *)
(* token, iter) is not part of the sources at hand, so it follows sections  *)
(* 3, 4.1 and 4.3 of the specification. The store holds a node in every     *)
(* occupied cell; a slot is released by remove, above.                      *)

\* The number of tree operations that are explored.
MaxTreeCalls == 6

\* Node: a value and five optional handles.
Node(v) == [data |-> v, parent |-> None, first_child |-> None,
            last_child |-> None, previous_sibling |-> None, next_sibling |-> None]

NodeAt(a, h) == a.data[h + 1].val
IsNode(a, h) == get(a, h) # None
SetNode(a, h, nd) == [a EXCEPT !.data[h + 1] = Just(nd)]

\* Section 4.1, growth: by the occupied count, and by one slot when nothing
\* is occupied; the new slots are one chain that becomes the free list.
GrowBy(a) == IF a.len = 0 THEN 1 ELSE a.len

StoreGrow(a) ==
    LET first == Len(a.data) IN
    [a EXCEPT !.data = a.data \o Chain(first, GrowBy(a) - 1) \o <<Nothing(None)>>,
              !.head = Some(first)]

\* Section 4.1, allocation: pop the head of the free list, growing the store
\* first when the list is empty; the occupied count goes up by one.
StoreInsert(a, nd) ==
    LET b == IF a.head = None THEN StoreGrow(a) ELSE a
        r == Occupy(b, Unwrap(b.head), nd)
    IN [a |-> [r.a EXCEPT !.len = @ + 1], h |-> Unwrap(r.h)]

\* Section 4.1, release: the occupied count goes down by one when the slot
\* held a value.
StoreRelease(a, h) ==
    LET r == remove(a, h) IN
    [a |-> IF IsSome(r.ret) THEN [r.a EXCEPT !.len = @ - 1] ELSE r.a, ret |-> r.ret]

\* The handles met from `from` along next_sibling, in order.
RECURSIVE SiblingChain(_, _, _)
SiblingChain(a, from, fuel) ==
    IF from = None \/ fuel = 0 THEN <<>>
    ELSE LET h == Unwrap(from) IN
         IF ~IsNode(a, h) THEN <<>>
         ELSE <<h>> \o SiblingChain(a, NodeAt(a, h).next_sibling, fuel - 1)

\* Children(node): first_child -> next_sibling -> ...
ChildrenOf(a, p) == SiblingChain(a, NodeAt(a, p).first_child, Len(a.data))

\* Subtree(node, pre-order): the node, then the subtree of each child, left
\* to right.
RECURSIVE PreOrderAll(_, _, _)
PreOrderAll(a, hs, fuel) ==
    IF hs = <<>> \/ fuel = 0 THEN <<>>
    ELSE <<Head(hs)>> \o PreOrderAll(a, ChildrenOf(a, Head(hs)), fuel - 1)
                      \o PreOrderAll(a, Tail(hs), fuel)

PreOrder(a, n) == PreOrderAll(a, <<n>>, Len(a.data))

\* Create root: a node with no links.
new_node(a, v) == StoreInsert(a, Node(v))

\* Append that leaves the old last child's next_sibling empty.
LinkLastForgetsNext(a, p, n) ==
    LET pn == NodeAt(a, p) IN
    IF pn.last_child = None
    THEN SetNode(SetNode(a, n, [NodeAt(a, n) EXCEPT !.parent = Some(p)]),
                 p, [pn EXCEPT !.first_child = Some(n), !.last_child = Some(n)])
    ELSE LET l == Unwrap(pn.last_child) IN
         SetNode(SetNode(a, n, [NodeAt(a, n) EXCEPT !.parent = Some(p),
                                                     !.previous_sibling = Some(l)]),
                 p, [pn EXCEPT !.last_child = Some(n)])

\* Append, the links: n becomes the last child of p.
LinkLast(a, p, n) ==
    LET pn == NodeAt(a, p) IN
    IF pn.last_child = None
    THEN SetNode(SetNode(a, n, [NodeAt(a, n) EXCEPT !.parent = Some(p)]),
                 p, [pn EXCEPT !.first_child = Some(n), !.last_child = Some(n)])
    ELSE LET l == Unwrap(pn.last_child)
             a1 == SetNode(a, l, [NodeAt(a, l) EXCEPT !.next_sibling = Some(n)])
             a2 == SetNode(a1, n, [NodeAt(a1, n) EXCEPT !.parent = Some(p),
                                                         !.previous_sibling = Some(l)])
         IN SetNode(a2, p, [NodeAt(a2, p) EXCEPT !.last_child = Some(n)])

\* Append(parent, value)
append(a, p, v) ==
    LET r == StoreInsert(a, Node(v)) IN
    [a |-> LinkLast(r.a, p, r.h), h |-> r.h]

\* Detach that does not patch the parent's last_child.
DetachKeepsLastChild(a, n) ==
    LET nd == NodeAt(a, n)
        a1 == IF IsSome(nd.previous_sibling)
              THEN LET q == Unwrap(nd.previous_sibling) IN
                   SetNode(a, q, [NodeAt(a, q) EXCEPT !.next_sibling = nd.next_sibling])
              ELSE IF IsSome(nd.parent)
              THEN LET q == Unwrap(nd.parent) IN
                   SetNode(a, q, [NodeAt(a, q) EXCEPT !.first_child = nd.next_sibling])
              ELSE a
        a2 == IF IsSome(nd.next_sibling)
              THEN LET q == Unwrap(nd.next_sibling) IN
                   SetNode(a1, q, [NodeAt(a1, q) EXCEPT
                                       !.previous_sibling = nd.previous_sibling])
              ELSE a1
    IN SetNode(a2, n, [NodeAt(a2, n) EXCEPT !.parent = None,
                                             !.previous_sibling = None,
                                             !.next_sibling = None])

\* Sever n from its parent and siblings: patch the neighbours' links and
\* the parent's first_child / last_child.
Detach(a, n) ==
    LET nd == NodeAt(a, n)
        a1 == IF IsSome(nd.previous_sibling)
              THEN LET q == Unwrap(nd.previous_sibling) IN
                   SetNode(a, q, [NodeAt(a, q) EXCEPT !.next_sibling = nd.next_sibling])
              ELSE IF IsSome(nd.parent)
              THEN LET q == Unwrap(nd.parent) IN
                   SetNode(a, q, [NodeAt(a, q) EXCEPT !.first_child = nd.next_sibling])
              ELSE a
        a2 == IF IsSome(nd.next_sibling)
              THEN LET q == Unwrap(nd.next_sibling) IN
                   SetNode(a1, q, [NodeAt(a1, q) EXCEPT
                                       !.previous_sibling = nd.previous_sibling])
              ELSE IF IsSome(nd.parent)
              THEN LET q == Unwrap(nd.parent) IN
                   SetNode(a1, q, [NodeAt(a1, q) EXCEPT
                                       !.last_child = nd.previous_sibling])
              ELSE a1
    IN SetNode(a2, n, [NodeAt(a2, n) EXCEPT !.parent = None,
                                             !.previous_sibling = None,
                                             !.next_sibling = None])

\* Orphaning that leaves the children's parent as it was.
OrphanNone(a, hs) == a

\* Every handle of hs gets parent absent.
RECURSIVE OrphanAll(_, _)
OrphanAll(a, hs) ==
    IF hs = <<>> THEN a
    ELSE OrphanAll(SetNode(a, Head(hs), [NodeAt(a, Head(hs)) EXCEPT !.parent = None]),
                   Tail(hs))

\* Remove(node): detach it, orphan its children, release its slot; the
\* orphans' handles are returned. Absent for a handle that holds no node.
tree_remove(a, n) ==
    IF ~IsNode(a, n) THEN [a |-> a, ret |-> None]
    ELSE LET cs == ChildrenOf(a, n)
             a1 == OrphanAll(Detach(a, n), cs)
         IN [a |-> StoreRelease(a1, n).a, ret |-> Some(cs)]

RECURSIVE ReleaseAll(_, _)
ReleaseAll(a, hs) ==
    IF hs = <<>> THEN a ELSE ReleaseAll(StoreRelease(a, Head(hs)).a, Tail(hs))

\* Uproot(node): sever it from its parent and siblings, then release it and
\* every descendant. A reported failure, and no change, for a handle that
\* holds no node.
uproot(a, n) ==
    IF ~IsNode(a, n) THEN [a |-> a, ret |-> None]
    ELSE LET sub == PreOrder(a, n) IN
         [a |-> ReleaseAll(Detach(a, n), sub), ret |-> Some(sub)]

\* A tree call: op; h the handle passed; v the value passed; ret what the call
\* returned (the new handle, the orphans, the released handles); node the
\* node that h held before a remove or an uproot; n the number of calls so
\* far.
TreeCall(op, h, v, ret, node, n) ==
    [op |-> op, h |-> h, v |-> v, ret |-> ret, node |-> node, n |-> n]

\* Whether the store can take one more node without exceeding the heap.
Fits(a) == a.head # None \/ Len(a.data) + GrowBy(a) <= MemCells

NewNode(v) ==
    /\ status = "running" /\ last.n < MaxTreeCalls /\ Fits(Self)
    /\ LET r == new_node(Self, v) IN
       /\ data' = r.a.data /\ head' = r.a.head /\ len' = r.a.len
       /\ last' = TreeCall("new_node", None, Some(v), Some(r.h), None, last.n + 1)
    /\ UNCHANGED <<overflow_checks, status, log>>

AppendChild(p, v) ==
    /\ status = "running" /\ last.n < MaxTreeCalls /\ Fits(Self)
    /\ IsNode(Self, p)
    /\ LET r == append(Self, p, v) IN
       /\ data' = r.a.data /\ head' = r.a.head /\ len' = r.a.len
       /\ last' = TreeCall("append", Some(p), Some(v), Some(r.h), None, last.n + 1)
    /\ UNCHANGED <<overflow_checks, status, log>>

TreeRemove(h) ==
    /\ status = "running" /\ last.n < MaxTreeCalls
    /\ LET r == tree_remove(Self, h) IN
       /\ data' = r.a.data /\ head' = r.a.head /\ len' = r.a.len
       /\ last' = TreeCall("remove", Some(h), None, r.ret, get(Self, h), last.n + 1)
    /\ UNCHANGED <<overflow_checks, status, log>>

Uproot(h) ==
    /\ status = "running" /\ last.n < MaxTreeCalls
    /\ LET r == uproot(Self, h) IN
       /\ data' = r.a.data /\ head' = r.a.head /\ len' = r.a.len
       /\ last' = TreeCall("uproot", Some(h), None, r.ret, get(Self, h), last.n + 1)
    /\ UNCHANGED <<overflow_checks, status, log>>

\* Arena::default(): the empty store.
InitTree ==
    /\ data = New.data /\ head = New.head /\ len = New.len
    /\ overflow_checks = FALSE
    /\ status = "running"
    /\ log = <<>>
    /\ last = TreeCall("none", None, None, None, None, 0)

NextTree ==
    \/ \E v \in Values : NewNode(v)
    \/ \E p \in 0 .. Len(data) : \E v \in Values : AppendChild(p, v)
    \/ \E h \in 0 .. Len(data) : TreeRemove(h)
    \/ \E h \in 0 .. Len(data) : Uproot(h)

SpecTree == InitTree /\ [][NextTree]_vars

-----------------------------------------------------------------------------
(* What the log says about a handle.                                        *)

IsInsert(c) == c.op = "insert"
RemovedSome(c) == c.op = "remove" /\ IsSome(c.v)
InsertedAt(c, h) == c.op = "insert" /\ c.h = Some(h)

\* h was released by a remove that returned its value, and no later insert
\* returned h.
ReleasedNotReused(h) ==
    \E p \in 1 .. Len(log) :
        /\ RemovedSome(log[p]) /\ log[p].h = Some(h)
        /\ \A q \in p + 1 .. Len(log) : ~InsertedAt(log[q], h)

\* The value that the latest successful remove of h returned.
StaleValue(h) ==
    LET ps == {p \in 1 .. Len(log) : RemovedSome(log[p]) /\ log[p].h = Some(h)}
        p == CHOOSE x \in ps : \A y \in ps : y <= x
    IN log[p].v

\* The calls of the log that changed the arena.
Changes(c) == IsInsert(c) \/ RemovedSome(c)
Changing == SelectSeq(log, Changes)

-----------------------------------------------------------------------------
(* C1: after any sequence of insert and remove calls starting from         *)
(* Arena::new(), every call of the sequence has returned, len() is the      *)
(* number of occupied (Just) cells, is_empty() is true exactly when no cell *)
(* is occupied, and len() is at most capacity().                            *)
C1_LenCountsOccupied ==
    /\ \A p \in 1 .. Len(log) : log[p].done
    /\ ArenaLen(Self) = Cardinality(Occupied(data))
    /\ IsEmpty(Self) <=> (Occupied(data) = {})
    /\ ArenaLen(Self) <= Capacity(Self)

(* C2: insert(v) returns a handle h with get(h) = get_mut(h) = Some(v)      *)
(* right afterwards, and a following remove(h) returns Some(v); also on the *)
(* freshly constructed arena.                                               *)
C2_InsertRoundTrip ==
    last.op = "insert" =>
        /\ last.done
        /\ IsSome(last.h)
        /\ get(Self, Unwrap(last.h)) = last.v
        /\ get_mut(Self, Unwrap(last.h)) = last.v
        /\ remove(Self, Unwrap(last.h)).ret = last.v

(* C3: get(h) and get_mut(h) return None, and the process keeps running,    *)
(* when h was released by remove and not reused by a later insert, and when *)
(* h is at or beyond capacity(); the value stored before the release is     *)
(* never returned.                                                          *)
C3_GetOfReleasedIsNone ==
    (last.op \in {"get", "get_mut"}
        /\ (ReleasedNotReused(Unwrap(last.h)) \/ Unwrap(last.h) >= Capacity(Self)))
    => /\ last.done /\ status = "running"
       /\ last.v = None
       /\ ReleasedNotReused(Unwrap(last.h)) => last.v # StaleValue(Unwrap(last.h))

C3_Witness ==
    /\ last.op = "get_mut"
    /\ ReleasedNotReused(Unwrap(last.h))
    /\ Unwrap(last.h) < Capacity(Self)
    /\ StaleValue(Unwrap(last.h)) = Some("b")
    /\ last.v = None

(* C4: after k removes that returned the values of h1, ..., hk, in that     *)
(* order and with no insert in between, the next inserts return hk, ...,    *)
(* h1 in that order: the j-th of them returns the handle of the j-th last   *)
(* remove (k = 1: the very next insert returns the handle just removed).    *)
C4_MostRecentlyFreedFirst ==
    LET ch == Changing IN
    \A p \in 1 .. Len(ch) : \A k \in 1 .. Len(ch) : \A j \in 1 .. k :
        (/\ p + k + j - 1 <= Len(ch)
         /\ \A i \in 0 .. k - 1 : RemovedSome(ch[p + i])
         /\ \A i \in 1 .. j : IsInsert(ch[p + k - 1 + i]))
        => /\ ch[p + k - 1 + j].done
           /\ ch[p + k - 1 + j].h = ch[p + k - j].h

C4_Witness ==
    LET ch == Changing IN
    /\ Len(ch) = 4 /\ Len(log) = 4
    /\ RemovedSome(ch[1]) /\ RemovedSome(ch[2])
    /\ IsInsert(ch[3]) /\ IsInsert(ch[4])
    /\ ch[1].h # ch[2].h
    /\ ch[3].h = ch[2].h /\ ch[4].h = ch[1].h
    /\ status = "running"

(* C5: a remove of a handle whose slot is free (a second remove of the same *)
(* handle too) or out of range returns None, the process keeps running and  *)
(* data, head, len (and so the capacity) are what they were before.         *)
C5_RemoveOfFreeIsNoOp ==
    [][(/\ Len(log') = Len(log) + 1
        /\ log'[Len(log')].op = "remove"
        /\ LET h == Unwrap(log'[Len(log')].h) IN
           h >= Len(data) \/ data[h + 1].tag = "Nothing")
       => (/\ log'[Len(log')].v = None
           /\ log'[Len(log')].done
           /\ status' = "running"
           /\ UNCHANGED <<data, head, len>>)]_vars

C5_Witness ==
    /\ Len(log) >= 2
    /\ RemovedSome(log[Len(log) - 1])
    /\ log[Len(log)].op = "remove"
    /\ log[Len(log)].h = log[Len(log) - 1].h
    /\ log[Len(log)].v = None
    /\ status = "running"

(* C6: inserting N values returns N handles; after removing those N handles *)
(* in any order, N more inserts return exactly the N freed indices and      *)
(* capacity() is what it was right after the first N inserts.               *)
ReuseWindow(p, n) ==
    /\ p + 3 * n - 1 <= Len(log)
    /\ \A i \in 0 .. n - 1 : IsInsert(log[p + i]) /\ IsInsert(log[p + 2 * n + i])
    /\ \A i \in 0 .. n - 1 : RemovedSome(log[p + n + i])
    /\ {log[p + n + i].h : i \in 0 .. n - 1} = {log[p + i].h : i \in 0 .. n - 1}
    /\ Cardinality({log[p + i].h : i \in 0 .. n - 1}) = n

C6_ReuseWithoutGrowth ==
    /\ \A p \in 1 .. Len(log) : IsInsert(log[p]) => log[p].done /\ IsSome(log[p].h)
    /\ \A p \in 1 .. Len(log) : \A n \in 1 .. Len(log) :
          ReuseWindow(p, n) =>
              /\ log[p + 3 * n - 1].cap = log[p + n - 1].cap
              /\ {log[p + 2 * n + i].h : i \in 0 .. n - 1}
                    = {log[p + i].h : i \in 0 .. n - 1}

-----------------------------------------------------------------------------
(* The tree claims.                                                         *)

Post == ArenaOf(data', head', len')

\* The call that this step made, if it made one.
Called(op) == last'.op = op /\ last'.n = last.n + 1

\* s without the element x.
Without(s, x) == LET keep(y) == y # x IN SelectSeq(s, keep)

\* Every node of the subtree of c is the same node, value and links, in
\* both stores, but for the parent of c itself.
SameSubtree(a, b, c) ==
    /\ PreOrder(b, c) = PreOrder(a, c)
    /\ \A i \in 1 .. Len(PreOrder(a, c)) :
          LET x == PreOrder(a, c)[i] IN
          /\ IsNode(b, x)
          /\ NodeAt(b, x).data = NodeAt(a, x).data
          /\ ChildrenOf(b, x) = ChildrenOf(a, x)
          /\ x # c => NodeAt(b, x) = NodeAt(a, x)

RECURSIVE InsertN(_, _)
InsertN(a, n) == IF n = 0 THEN a ELSE InsertN(StoreInsert(a, Node("a")).a, n - 1)

\* The handles that n more inserts return.
RECURSIVE HandlesOfN(_, _)
HandlesOfN(a, n) ==
    IF n = 0 THEN {}
    ELSE LET r == StoreInsert(a, Node("a")) IN {r.h} \cup HandlesOfN(r.a, n - 1)

LinksOf(a, x) ==
    LET nd == NodeAt(a, x) IN
    {nd.parent, nd.first_child, nd.last_child, nd.previous_sibling, nd.next_sibling}
        \ {None}

TreeLinksWF(a) ==
    LET occ == Occupied(a.data) IN
    /\ \A x \in occ : \A l \in LinksOf(a, x) : Unwrap(l) \in occ
    /\ \A x \in occ : \A y \in occ :
          (NodeAt(a, x).next_sibling = Some(y)) <=> (NodeAt(a, y).previous_sibling = Some(x))
    /\ \A p \in occ :
          LET c == ChildrenOf(a, p) IN
          /\ Range(c) = {x \in occ : NodeAt(a, x).parent = Some(p)}
          /\ Cardinality(Range(c)) = Len(c)
          /\ (c = <<>>) => NodeAt(a, p).first_child = None /\ NodeAt(a, p).last_child = None
          /\ (c # <<>>) => /\ NodeAt(a, p).last_child = Some(c[Len(c)])
                           /\ NodeAt(a, c[Len(c)]).next_sibling = None
                           /\ NodeAt(a, c[1]).previous_sibling = None

RECURSIVE AncestorsOf(_, _, _)
AncestorsOf(a, y, fuel) ==
    IF fuel = 0 \/ ~IsNode(a, y) \/ NodeAt(a, y).parent = None THEN {}
    ELSE LET p == Unwrap(NodeAt(a, y).parent) IN {p} \cup AncestorsOf(a, p, fuel - 1)

\* s without the elements of the set S.
Minus(s, S) == LET keep(y) == y \notin S IN SelectSeq(s, keep)

NoDup(s) == Cardinality(Range(s)) = Len(s)

\* The walks of the handles of hs, one after the other.
RECURSIVE WalkEach(_, _)
WalkEach(a, hs) ==
    IF hs = <<>> THEN <<>> ELSE PreOrder(a, Head(hs)) \o WalkEach(a, Tail(hs))

\* The pre-order walk from x: x first, then the whole walk of each child from
\* left to right; every node below x once, and nothing else.
WalkInOrder(a, x) ==
    LET w == PreOrder(a, x) IN
    /\ w = <<x>> \o WalkEach(a, ChildrenOf(a, x))
    /\ NoDup(w)
    /\ Range(w) = {x} \cup {y \in Occupied(a.data) : x \in AncestorsOf(a, y, Len(a.data))}

-----------------------------------------------------------------------------
(* The allocator claims about growth, termination, aliasing and frame.      *)

\* The call that this step appended to the log, if it appended one.
Logged(op) == Len(log') = Len(log) + 1 /\ log'[Len(log')].op = op
TheCall == log'[Len(log')]

\* The handles that k more inserts return, in order; the sequence stops at an
\* insert that does not return.
RECURSIVE NextHandles(_, _, _)
NextHandles(a, k, checks) ==
    IF k = 0 THEN <<>>
    ELSE LET r == insert(a, "a", checks) IN
         IF r.out # "ok" THEN <<>>
         ELSE <<Unwrap(r.h)>> \o NextHandles(r.a, k - 1, checks)

\* The arena after k more inserts.
RECURSIVE AfterInserts(_, _, _)
AfterInserts(a, k, checks) ==
    IF k = 0 THEN a ELSE AfterInserts(insert(a, "a", checks).a, k - 1, checks)

(* C12: an insert that finds the free list empty returns, and grows the     *)
(* store by at least the number of occupied slots; the slots that existed   *)
(* keep their content; the added slots are one ascending chain, its first   *)
(* slot taken by this insert, its last slot with an empty link; the next    *)
(* inserts return the following new indices in ascending order and the      *)
(* store does not grow again until the chain is used up.                    *)
C12_GrowthStep ==
    [][(Logged("insert") /\ head = None)
       => LET old == Len(data)
              added == Len(data') - old
          IN /\ TheCall.done
             /\ added >= 1
             /\ added >= Cardinality(Occupied(data))
             /\ \A i \in 1 .. old : data'[i] = data[i]
             /\ TheCall.h = Some(old)
             /\ \A i \in old + 1 .. old + added - 2 : data'[i + 1] = Nothing(Some(i + 1))
             /\ added > 1 => data'[old + added] = Nothing(None)
             /\ head' = IF added > 1 THEN Some(old + 1) ELSE None
             /\ NextHandles(Post, added - 1, overflow_checks)
                   = [k \in 1 .. added - 1 |-> old + k]
             /\ Capacity(AfterInserts(Post, added - 1, overflow_checks)) = old + added]_vars

\* The number of times one call of insert calls allocate: once in each
\* activation that finds head == None, the last one being the activation
\* whose allocate does not return.
RECURSIVE allocate_calls(_, _)
allocate_calls(a, checks) ==
    IF a.head = None
    THEN LET r == allocate(a, Additional(a), checks) IN
         IF r.out # "ok" THEN 1 ELSE 1 + allocate_calls(r.a, checks)
    ELSE 0

(* C13: every call of insert returns, with the process still running, after *)
(* at most one call of allocate; when insert calls allocate, allocate       *)
(* returns and leaves head non-empty, so that the retry occupies a slot.    *)
C13_InsertTerminates ==
    [][Logged("insert")
       => /\ TheCall.done
          /\ status' = "running"
          /\ allocate_calls(Self, overflow_checks) <= 1
          /\ head = None =>
                LET r == allocate(Self, Additional(Self), overflow_checks) IN
                r.out = "ok" /\ r.a.head # None]_vars

\* The r-th call is an insert that returned h, after an earlier insert had
\* returned h and a remove had been called with h in between; no remove was
\* called with h from the r-th call up to the s-th.
Reused(h, r) ==
    /\ InsertedAt(log[r], h)
    /\ \E p \in 1 .. r - 1 : \E q \in p + 1 .. r - 1 :
          InsertedAt(log[p], h) /\ log[q].op = "remove" /\ log[q].h = Some(h)
KeptSince(h, r, s) ==
    \A q \in r + 1 .. s : ~(log[q].op = "remove" /\ log[q].h = Some(h))

(* C14: when insert(v1) returned h, remove(h) was called and a later        *)
(* insert(v2) returned h again, then get(h) and get_mut(h) through the old  *)
(* handle return v2, and remove(h) through the old handle returns v2 and    *)
(* releases the slot.                                                       *)
C14_StaleHandleAliases ==
    \A r \in 1 .. Len(log) : \A h \in 0 .. Len(data) - 1 :
        Reused(h, r) =>
            /\ KeptSince(h, r, Len(log)) =>
                   /\ get(Self, h) = log[r].v
                   /\ get_mut(Self, h) = log[r].v
                   /\ remove(Self, h).ret = log[r].v
                   /\ get(remove(Self, h).a, h) = None
                   /\ (last.op \in {"get", "get_mut"} /\ last.h = Some(h))
                         => last.v = log[r].v
            /\ \A s \in r + 1 .. Len(log) :
                   (log[s].op = "remove" /\ log[s].h = Some(h) /\ KeptSince(h, r, s - 1))
                   => log[s].v = log[r].v /\ log[s].done

\* insert("a") returned h, remove(h) returned "a", insert("b") returned h,
\* and the remove through the same handle has returned "b".
C14_Witness ==
    /\ Len(log) = 4 /\ status = "running"
    /\ log[1].op = "insert" /\ log[1].v = Some("a")
    /\ log[2].op = "remove" /\ log[2].h = log[1].h /\ log[2].v = Some("a")
    /\ log[3].op = "insert" /\ log[3].v = Some("b") /\ log[3].h = log[1].h
    /\ log[4].op = "remove" /\ log[4].h = log[1].h /\ log[4].v = Some("b")
    /\ get(Self, Unwrap(log[1].h)) = None

(* C15: from Arena::new(), whatever insert, remove, get and get_mut calls   *)
(* are made and with whatever handles, the process keeps running: no panic  *)
(* site is reached, no arithmetic or index fault occurs, no call aborts.    *)
C15_NoAbort ==
    /\ status = "running"
    /\ last.done
    /\ \A p \in 1 .. Len(log) : log[p].done

(* C16: every call of allocate that insert makes passes additional >= 1,    *)
(* the subtraction additional - 1 does not underflow, and allocate returns  *)
(* having added exactly `additional` slots.                                 *)
C16_AllocateAtLeastOne ==
    [][(Logged("insert") /\ head = None)
       => LET additional == Additional(Self)
              r == allocate(Self, additional, overflow_checks)
          IN /\ additional >= 1
             /\ SubOne(additional, overflow_checks).out = "ok"
             /\ SubOne(additional, overflow_checks).n = additional - 1
             /\ r.out = "ok"
             /\ Len(r.a.data) = Len(data) + additional
             /\ Len(data') = Len(data) + additional]_vars

(* C17: an insert that returns occupies a slot that was free or did not     *)
(* exist before the call: its handle is none of the occupied ones, and get  *)
(* on every slot that was occupied returns what it returned before, also    *)
(* when the store grows. A remove that returns a value changes slot h and   *)
(* head and nothing else: every other cell, the capacity and len stay.      *)
C17_Frame ==
    [][/\ (Logged("insert") /\ TheCall.done) =>
              LET h == Unwrap(TheCall.h) IN
              /\ h \notin Occupied(data)
              /\ h \in Free(data) \/ (h >= Len(data) /\ h < Len(data'))
              /\ Occupied(data') = Occupied(data) \cup {h}
              /\ get(Post, h) = TheCall.v
              /\ \A i \in Occupied(data) : get(Post, i) = get(Self, i)
              /\ Len(data') >= Len(data)
       /\ (Logged("remove") /\ IsSome(TheCall.v)) =>
              LET h == Unwrap(TheCall.h) IN
              /\ Len(data') = Len(data)
              /\ \A i \in 0 .. Len(data) - 1 : i # h => data'[i + 1] = data[i + 1]
              /\ \A i \in Occupied(data) \ {h} : get(Post, i) = get(Self, i)
              /\ data'[h + 1] = Nothing(head)
              /\ head' = Some(h)
              /\ len' = len]_vars

\* An insert has grown a store that held two values, and a remove of one of
\* them has followed: the other value and the new one are where they were.
C17_Witness ==
    /\ Len(log) >= 3 /\ status = "running"
    /\ LET n == Len(log) IN
       /\ log[n - 1].op = "insert" /\ log[n - 1].done
       /\ log[n - 1].cap > log[n - 2].cap
       /\ RemovedSome(log[n])
       /\ log[n].h # log[n - 1].h
       /\ log[n].cap = log[n - 1].cap
       /\ get(Self, Unwrap(log[n - 1].h)) = log[n - 1].v
       /\ Cardinality(Occupied(data)) >= 2

====
